---- MODULE Spec2Model ----
(***************************************************************************)
(* Model of the Poker-system-MVP layers:                                   *)
(*   L1  l1_domain   (GameState, Action.is_valid, PokerRules)              *)
(*   L2  l2_executor (PokerKitExecutor wrapping a PokerKit NLHE state)     *)
(*   L3  l3_driver   (GameLoop.run_game_loop)                              *)
(* The PokerKit state held in PokerKitExecutor.current_pk_state is the     *)
(* variable pk; the operators Pk... model the library calls the executor   *)
(* makes on it, under the automations create_initial_state selects.        *)
(***************************************************************************)
EXTENDS Integers, Sequences, FiniteSets, TLC

VARIABLES
    driver,         \* who drives the model: "loop", "step", "rules",
                    \* "validator" or "street"
    pk,             \* PokerKitExecutor.current_pk_state (None before creation)
    current_state,  \* the GameState snapshot held by the caller / GameLoop
    last,           \* outcome of the last submitted action
    raises,         \* raises and all-ins applied in this hand so far
    rules_result,   \* last result of PokerRules.determine_winners
    held,           \* a snapshot a caller of step kept, and what came of it
    street_result,  \* last result of PokerRules.get_next_street
    acted,          \* the seats that acted on this street since its last raise
    update,         \* last call of GameState.with_player_action and its result
    compared,       \* last calls of PokerRules.compare_hands and their results
    cli             \* the arguments given to run_cli or main, and the outcome

vars == <<driver, pk, current_state, last, raises, rules_result, held,
          street_result, acted, update, compared, cli>>

None == "None"     \* Python None where a string is expected
NoIndex == -1       \* Python None where an index is expected

----------------------------------------------------------------------------
(* Bounds of the model *)

\* raise amounts offered are k * small_blind for k in 0..MaxRaiseUnits
MaxRaiseUnits == 3
\* raises and all-ins are submitted until MaxRaises of them were applied
MaxRaises == 2
\* fixture pots are 0..MaxFixturePot, plus the scenario pots
MaxFixturePot == 1

----------------------------------------------------------------------------
(* Generic helpers *)

Seats(n) == 0 .. (n - 1)

Max2(a, b) == IF a >= b THEN a ELSE b
Min2(a, b) == IF a <= b THEN a ELSE b

RECURSIVE SumOver(_, _)
SumOver(f, S) ==
    IF S = {} THEN 0
    ELSE LET x == CHOOSE y \in S : TRUE IN f[x] + SumOver(f, S \ {x})

SumFn(f) == SumOver(f, DOMAIN f)

MaxFn(f) == CHOOSE m \in {f[i] : i \in DOMAIN f} : \A i \in DOMAIN f : f[i] <= m

\* ascending list of the members of a set of integers
RECURSIVE SortedSeq(_)
SortedSeq(S) ==
    IF S = {} THEN <<>>
    ELSE LET m == CHOOSE x \in S : \A y \in S : x <= y
         IN <<m>> \o SortedSeq(S \ {m})

SeqToSet(s) == {s[k] : k \in 1 .. Len(s)}

Take(s, k) == SubSeq(s, 1, Min2(k, Len(s)))

----------------------------------------------------------------------------
(* l1_domain/game_state.py *)

ACTIVE == "active"
FOLDED == "folded"
ALL_IN == "all_in"
OUT    == "out"
PlayerStatus == {ACTIVE, FOLDED, ALL_IN, OUT}

Player(id, stack, hole_cards, position, status, current_bet, total_bet) ==
    [id |-> id, stack |-> stack, hole_cards |-> hole_cards,
     position |-> position, status |-> status, current_bet |-> current_bet,
     total_bet_this_hand |-> total_bet]

NumPlayers(state) == Cardinality(DOMAIN state.players)

\* GameState.current_player
CurrentPlayer(state) == state.players[state.current_player_index]

\* with_player_action that leaves total_bet_this_hand as it was
WithPlayerActionSameTotal(state, player_index, new_stack, new_bet, new_status) ==
    LET old_player == state.players[player_index]
        new_player == [old_player EXCEPT
                          !.stack = new_stack,
                          !.status = new_status,
                          !.current_bet = new_bet]
    IN [state EXCEPT
           !.players = [state.players EXCEPT ![player_index] = new_player],
           !.pot = state.pot + (new_bet - old_player.current_bet),
           !.current_bet = Max2(state.current_bet, new_bet)]

\* GameState.with_player_action
WithPlayerAction(state, player_index, new_stack, new_bet, new_status) ==
    LET old_player == state.players[player_index]
        new_player == [old_player EXCEPT
                          !.stack = new_stack,
                          !.status = new_status,
                          !.current_bet = new_bet,
                          !.total_bet_this_hand =
                              old_player.total_bet_this_hand
                                  + (new_bet - old_player.current_bet)]
    IN [state EXCEPT
           !.players = [state.players EXCEPT ![player_index] = new_player],
           !.pot = state.pot + (new_bet - old_player.current_bet),
           !.current_bet = Max2(state.current_bet, new_bet)]

----------------------------------------------------------------------------
(* l1_domain/action.py *)

FoldAction(player_id)  == [action_type |-> "fold",   player_id |-> player_id, amount |-> 0]
CheckAction(player_id) == [action_type |-> "check",  player_id |-> player_id, amount |-> 0]
CallAction(player_id)  == [action_type |-> "call",   player_id |-> player_id, amount |-> 0]
RaiseAction(player_id, amount) ==
    [action_type |-> "raise", player_id |-> player_id, amount |-> amount]
AllInAction(player_id) == [action_type |-> "all_in", player_id |-> player_id, amount |-> 0]

\* RaiseAction.is_valid
RaiseIsValid(amount, current_bet, player_stack, player_current_bet) ==
    LET total_bet == player_current_bet + amount
    IN total_bet > current_bet /\ amount <= player_stack /\ amount > 0

\* AllInAction.is_valid
AllInIsValid(player_stack) == player_stack > 0

\* is_valid with a CallAction that does not look at the stack
IsValidCallUncovered(action, current_bet, player_stack, player_current_bet) ==
    CASE action.action_type = "fold"   -> TRUE
      [] action.action_type = "check"  -> current_bet = player_current_bet
      [] action.action_type = "call"   -> current_bet - player_current_bet > 0
      [] action.action_type = "raise"  ->
             RaiseIsValid(action.amount, current_bet, player_stack,
                          player_current_bet)
      [] action.action_type = "all_in" -> AllInIsValid(player_stack)

\* Action.is_valid, dispatched on the subclass
IsValid(action, current_bet, player_stack, player_current_bet) ==
    CASE action.action_type = "fold"   -> TRUE
      [] action.action_type = "check"  -> current_bet = player_current_bet
      [] action.action_type = "call"   ->
             LET call_amount == current_bet - player_current_bet
             IN call_amount > 0 /\ call_amount <= player_stack
      [] action.action_type = "raise"  ->
             RaiseIsValid(action.amount, current_bet, player_stack,
                          player_current_bet)
      [] action.action_type = "all_in" -> AllInIsValid(player_stack)

\* parse_action returns None for text it does not recognise
NoAction == [action_type |-> "none", player_id |-> "", amount |-> 0]

\* a line of input, stripped and lower-cased: its first word, and the second
\* word if there is one (an integer literal or not)
Input(verb, has_arg, arg_is_int, arg) ==
    [verb |-> verb, has_arg |-> has_arg, arg_is_int |-> arg_is_int, arg |-> arg]
Word(verb) == Input(verb, FALSE, FALSE, 0)

\* parse_action
ParseAction(action_str, player_id) ==
    IF ~action_str.has_arg /\ action_str.verb \in {"f", "fold"}
    THEN FoldAction(player_id)
    ELSE IF ~action_str.has_arg /\ action_str.verb \in {"c", "call"}
    THEN CallAction(player_id)
    ELSE IF ~action_str.has_arg /\ action_str.verb \in {"ch", "check"}
    THEN CheckAction(player_id)
    ELSE IF action_str.has_arg /\ action_str.verb \in {"r", "raise"}
    THEN (IF action_str.arg_is_int
          THEN RaiseAction(player_id, action_str.arg) ELSE NoAction)
    ELSE IF ~action_str.has_arg /\ action_str.verb \in {"a", "all-in", "allin"}
    THEN AllInAction(player_id)
    ELSE NoAction

----------------------------------------------------------------------------
(* l1_domain/rules.py *)

\* HandRank enum values
HIGH_CARD == 1
PAIR == 2
TWO_PAIR == 3
THREE_OF_A_KIND == 4
\* STRAIGHT given the value of THREE_OF_A_KIND
STRAIGHT_AS_THREE_OF_A_KIND == THREE_OF_A_KIND
STRAIGHT == 5
FLUSH == 6
FULL_HOUSE == 7
FOUR_OF_A_KIND == 8
STRAIGHT_FLUSH == 9
ROYAL_FLUSH == 10
HandRank == {HIGH_CARD, PAIR, TWO_PAIR, THREE_OF_A_KIND, STRAIGHT, FLUSH,
             FULL_HOUSE, FOUR_OF_A_KIND, STRAIGHT_FLUSH, ROYAL_FLUSH}

NoCards == <<>>

\* PokerRules.evaluate_hand: the MVP evaluation ranks every hand HIGH_CARD
EvaluateHand(hole_cards, community_cards) ==
    IF hole_cards = NoCards \/ Len(community_cards) < 3
    THEN [rank |-> HIGH_CARD, kickers |-> <<>>]
    ELSE [rank |-> HIGH_CARD, kickers |-> Take(hole_cards \o community_cards, 5)]

\* compare_hands that never reports that hand2 wins
CompareHandsNoLoss(hand1, hand2) ==
    IF hand1.rank > hand2.rank THEN 1
    ELSE 0

\* PokerRules.compare_hands: only the rank values are compared
CompareHands(hand1, hand2) ==
    IF hand1.rank > hand2.rank THEN 1
    ELSE IF hand1.rank < hand2.rank THEN -1
    ELSE 0

\* the indices of all players who are not OUT, folded players included
PlayersNotOut(state) ==
    SortedSeq({i \in DOMAIN state.players : state.players[i].status # OUT})

\* indices i of state.players with players[i].status == ACTIVE, ascending
ActivePlayers(state) ==
    SortedSeq({i \in DOMAIN state.players : state.players[i].status = ACTIVE})

EmptyPayouts == [i \in {} |-> 0]
NoWinners == [winners |-> <<>>, payouts |-> EmptyPayouts]

\* the "Find best hand(s)" loop of _evaluate_showdown over hands.items();
\* best_players = <<>> stands for best_hand is None
RECURSIVE BestPlayers(_, _, _, _)
BestPlayers(state, todo, best_hand, best_players) ==
    IF todo = <<>> THEN best_players
    ELSE LET player_idx == Head(todo)
             hand == EvaluateHand(state.players[player_idx].hole_cards,
                                  state.community_cards)
         IN IF best_players = <<>>
            THEN BestPlayers(state, Tail(todo), hand, <<player_idx>>)
            ELSE LET comparison == CompareHands(hand, best_hand)
                 IN IF comparison > 0
                    THEN BestPlayers(state, Tail(todo), hand, <<player_idx>>)
                    ELSE IF comparison = 0
                    THEN BestPlayers(state, Tail(todo), best_hand,
                                     Append(best_players, player_idx))
                    ELSE BestPlayers(state, Tail(todo), best_hand, best_players)

\* _evaluate_showdown comparing hands on any board, without its early return
\* for fewer than 5 community cards
EvaluateShowdownAnyBoard(state, active_players) ==
    LET hands == SelectSeq(active_players,
                     LAMBDA i : state.players[i].hole_cards # NoCards)
    IN IF hands = <<>> THEN NoWinners
       ELSE LET best_players == BestPlayers(state, hands, EvaluateHand(NoCards, <<>>), <<>>)
                payout_per_winner == state.pot \div Len(best_players)
            IN [winners |-> best_players,
                payouts |-> [i \in SeqToSet(best_players) |->
                                 payout_per_winner]]

\* PokerRules._evaluate_showdown
EvaluateShowdown(state, active_players) ==
    IF Len(state.community_cards) < 5
    THEN [winners |-> <<active_players[1]>>,
          payouts |-> [i \in {active_players[1]} |-> state.pot]]
    ELSE LET hands == SelectSeq(active_players,
                          LAMBDA i : state.players[i].hole_cards # NoCards)
         IN IF hands = <<>> THEN NoWinners
            ELSE LET best_players == BestPlayers(state, hands, EvaluateHand(NoCards, <<>>), <<>>)
                     payout_per_winner == state.pot \div Len(best_players)
                 IN [winners |-> best_players,
                     payouts |-> [i \in SeqToSet(best_players) |->
                                      payout_per_winner]]

\* determine_winners without its is_terminal guard
DetermineWinnersUnguarded(state) ==
    LET active_players == ActivePlayers(state)
    IN IF Len(active_players) = 1
       THEN [winners |-> <<active_players[1]>>,
             payouts |-> [i \in {active_players[1]} |-> state.pot]]
       ELSE IF Len(active_players) > 1
       THEN EvaluateShowdown(state, active_players)
       ELSE NoWinners

\* PokerRules.determine_winners
DetermineWinners(state) ==
    IF ~state.is_terminal THEN NoWinners
    ELSE LET active_players == ActivePlayers(state)
         IN IF Len(active_players) = 1
            THEN [winners |-> <<active_players[1]>>,
                  payouts |-> [i \in {active_players[1]} |-> state.pot]]
            ELSE IF Len(active_players) > 1
            THEN EvaluateShowdown(state, active_players)
            ELSE NoWinners

\* PokerRules.is_game_complete
IsGameComplete(state) ==
    LET active_count ==
            Cardinality({i \in DOMAIN state.players :
                            state.players[i].status = ACTIVE})
    IN active_count <= 1 \/ state.street = "river"

\* PokerRules.get_next_street
Streets == <<"preflop", "flop", "turn", "river">>

\* get_next_street going round from the last street to the first
GetNextStreetRound(current_street) ==
    IF \E k \in 1 .. Len(Streets) : Streets[k] = current_street
    THEN LET current_idx == CHOOSE k \in 1 .. Len(Streets) :
                                Streets[k] = current_street
         IN Streets[(current_idx % Len(Streets)) + 1]
    ELSE None

GetNextStreet(current_street) ==
    IF \E k \in 1 .. Len(Streets) : Streets[k] = current_street
    THEN LET current_idx == CHOOSE k \in 1 .. Len(Streets) :
                                Streets[k] = current_street
         IN IF current_idx < Len(Streets) THEN Streets[current_idx + 1] ELSE None
    ELSE None

----------------------------------------------------------------------------
(* The PokerKit state behind l2_executor/pokerkit_executor.py.             *)
(* NoLimitTexasHoldem.create_state is called with every automation except  *)
(* hole-card showing/mucking: blinds are posted, cards are dealt and burnt,*)
(* bets are collected and chips are pushed and pulled by the library, but  *)
(* a showdown waits for a show_or_muck_hole_cards call.                    *)

PlayerIds == <<"Player_0", "Player_1", "Player_2", "Player_3", "Player_4",
               "Player_5", "Player_6", "Player_7", "Player_8">>
PlayerId(i) == PlayerIds[i + 1]

\* one deck order; hole cards seat by seat, then the board
Deck == <<"Ah", "Ad", "7c", "2d", "As", "Kd", "Kh", "Qd", "Jh", "3s", "2h",
          "4c", "5c", "6c", "8c", "9c", "Tc", "4d", "5d", "6d", "8d", "9d",
          "Td">>
BoardCount == <<0, 3, 4, 5>>

CanAct(p, i) == p.statuses[i] /\ p.stacks[i] > 0

\* the seats start, start+1, ... (cyclically, n of them) that can still act
RECURSIVE ActorsFrom(_, _, _)
ActorsFrom(p, start, k) ==
    IF k = 0 THEN <<>>
    ELSE LET i == start % p.player_count
         IN (IF CanAct(p, i) THEN <<i>> ELSE <<>>)
                \o ActorsFrom(p, i + 1, k - 1)

InHand(p) == {i \in Seats(p.player_count) : p.statuses[i]}

\* pk_state.actor_index
PkActorIndex(p) == IF p.actor_indices = <<>> THEN NoIndex ELSE Head(p.actor_indices)

\* all-in situation: at most one player in the hand has chips behind
PkAllIn(p) == Cardinality({i \in InHand(p) : p.stacks[i] > 0}) <= 1

\* end of a betting round: the uncalled part of the highest bet goes back
\* to its owner, the bets are collected, and then either the last player
\* standing is paid (hand over), or a showdown is pending, or the next
\* street is dealt and its betting opened from seat 0
PkEndBetting(p) ==
    LET n == p.player_count
        top == MaxFn(p.bets)
        top_seats == {i \in Seats(n) : p.bets[i] = top}
        second == IF Cardinality(top_seats) > 1 THEN top
                  ELSE MaxFn([i \in Seats(n) \ top_seats |-> p.bets[i]])
        returned == [i \in Seats(n) |->
                        IF p.bets[i] = top THEN top - second ELSE 0]
        stacks1 == [i \in Seats(n) |-> p.stacks[i] + returned[i]]
        pot1 == p.total_pot + SumFn(p.bets) - SumFn(returned)
        zero == [i \in Seats(n) |-> 0]
        collected == [p EXCEPT !.stacks = stacks1, !.bets = zero,
                               !.total_pot = pot1, !.actor_indices = <<>>]
    IN IF Cardinality(InHand(p)) = 1
       THEN [collected EXCEPT
                !.stacks = [i \in Seats(n) |->
                               IF p.statuses[i] THEN stacks1[i] + pot1
                               ELSE stacks1[i]],
                !.total_pot = 0,
                !.status = FALSE]
       ELSE IF p.street_index = 3 \/ PkAllIn(collected)
       THEN [collected EXCEPT !.showdown = TRUE]
       ELSE LET dealt == [collected EXCEPT
                             !.street_index = p.street_index + 1,
                             !.board_cards =
                                 SubSeq(Deck, 2 * n + 1,
                                        2 * n + BoardCount[p.street_index + 2]),
                             !.completion_amount = p.min_bet]
            IN [dealt EXCEPT !.actor_indices = ActorsFrom(dealt, 0, n)]

PkAfterAction(p) == IF p.actor_indices = <<>> THEN PkEndBetting(p) ELSE p

\* get_effective_blind_or_straddle: heads-up the two blinds change seats
\* (the button, seat 1, posts the small blind); a blind is capped by the stack
PkEffectiveBlindOrStraddle(p, i) ==
    Min2(IF p.player_count = 2
         THEN p.blinds_or_straddles[1 - i] ELSE p.blinds_or_straddles[i],
         p.starting_stacks[i])

\* NoLimitTexasHoldem.create_state(...): blinds_or_straddles holds the raw
\* (small_blind, big_blind) padded with zeros; the blinds are posted and the
\* first actor is the seat after the highest blind
PkCreateState(config) ==
    LET n == config.num_players
        p0 == [player_count |-> n,
               blinds_or_straddles |->
                   [i \in Seats(n) |->
                       IF i = 0 THEN config.small_blind
                       ELSE IF i = 1 THEN config.big_blind ELSE 0],
               min_bet |-> config.big_blind,
               starting_stacks |-> [i \in Seats(n) |-> config.starting_stack],
               stacks |-> [i \in Seats(n) |-> config.starting_stack],
               bets |-> [i \in Seats(n) |-> 0],
               statuses |-> [i \in Seats(n) |-> TRUE],
               hole_cards |-> [i \in Seats(n) |-> SubSeq(Deck, 2 * i + 1, 2 * i + 2)],
               board_cards |-> <<>>,
               actor_indices |-> <<>>,
               completion_amount |-> config.big_blind,
               street_index |-> 0,
               total_pot |-> 0,
               showdown |-> FALSE,
               status |-> TRUE]
        posted == [i \in Seats(n) |-> PkEffectiveBlindOrStraddle(p0, i)]
        opener == CHOOSE i \in Seats(n) :
                      \A j \in Seats(n) :
                          posted[j] < posted[i] \/ (posted[j] = posted[i] /\ j <= i)
        p1 == [p0 EXCEPT !.stacks = [i \in Seats(n) |-> p0.stacks[i] - posted[i]],
                         !.bets = posted]
    IN [p1 EXCEPT !.actor_indices = ActorsFrom(p1, opener + 1, n)]

\* the library raises ValueError when an operation is not allowed; the
\* Pk...Ok predicates are the conditions under which it does not
PkFoldOk(p) ==
    /\ p.actor_indices # <<>>
    /\ p.bets[Head(p.actor_indices)] < MaxFn(p.bets)

\* fold() that leaves the last player standing to act
PkFoldOn(p) ==
    LET a == Head(p.actor_indices)
        p1 == [p EXCEPT !.statuses[a] = FALSE,
                        !.hole_cards[a] = NoCards,
                        !.actor_indices = Tail(p.actor_indices)]
    IN PkAfterAction(p1)

\* state.fold()
PkFold(p) ==
    LET a == Head(p.actor_indices)
        p1 == [p EXCEPT !.statuses[a] = FALSE,
                        !.hole_cards[a] = NoCards,
                        !.actor_indices = Tail(p.actor_indices)]
        p2 == IF Cardinality(InHand(p1)) = 1
              THEN [p1 EXCEPT !.actor_indices = <<>>] ELSE p1
    IN PkAfterAction(p2)

PkCheckOrCallOk(p) == p.actor_indices # <<>>

\* check_or_call that takes the whole street bet from the caller's stack
PkCheckOrCallWhole(p) ==
    LET a == Head(p.actor_indices)
        amount == MaxFn(p.bets)
    IN PkAfterAction([p EXCEPT !.stacks[a] = p.stacks[a] - amount,
                               !.bets[a] = p.bets[a] + amount,
                               !.actor_indices = Tail(p.actor_indices)])

\* state.check_or_call(): a call is capped by the caller's stack
PkCheckOrCall(p) ==
    LET a == Head(p.actor_indices)
        amount == Min2(p.stacks[a], MaxFn(p.bets) - p.bets[a])
    IN PkAfterAction([p EXCEPT !.stacks[a] = p.stacks[a] - amount,
                               !.bets[a] = p.bets[a] + amount,
                               !.actor_indices = Tail(p.actor_indices)])

\* min_completion_betting_or_raising_to_amount: the highest bet plus the
\* last full raise, or the actor's whole stack when that is less
PkMinRaiseTo(p) ==
    LET a == Head(p.actor_indices)
    IN Min2(MaxFn(p.bets) + p.completion_amount, p.stacks[a] + p.bets[a])

PkRaiseToOk(p, amount) ==
    /\ p.actor_indices # <<>>
    /\ LET a == Head(p.actor_indices)
       IN /\ p.stacks[a] > MaxFn(p.bets) - p.bets[a]
          /\ \E i \in InHand(p) \ {a} : p.stacks[i] + p.bets[i] > MaxFn(p.bets)
          /\ amount >= PkMinRaiseTo(p)
          /\ amount <= p.stacks[a] + p.bets[a]

\* complete_bet_or_raise_to that does not give the other players a turn
PkRaiseToUnanswered(p, amount) ==
    LET a == Head(p.actor_indices)
        raise_size == amount - MaxFn(p.bets)
        p1 == [p EXCEPT !.stacks[a] = p.stacks[a] - (amount - p.bets[a]),
                        !.bets[a] = amount,
                        !.completion_amount = Max2(p.completion_amount, raise_size)]
    IN PkAfterAction([p1 EXCEPT !.actor_indices = Tail(p.actor_indices)])

\* state.complete_bet_or_raise_to(amount)
PkRaiseTo(p, amount) ==
    LET a == Head(p.actor_indices)
        raise_size == amount - MaxFn(p.bets)
        p1 == [p EXCEPT !.stacks[a] = p.stacks[a] - (amount - p.bets[a]),
                        !.bets[a] = amount,
                        !.completion_amount = Max2(p.completion_amount, raise_size)]
    IN PkAfterAction([p1 EXCEPT !.actor_indices =
                                    ActorsFrom(p1, a + 1, p.player_count - 1)])

----------------------------------------------------------------------------
(* l2_executor/pokerkit_executor.py *)

\* PokerKitExecutor._get_position
GetPosition(player_index, num_players) ==
    IF num_players < 2 THEN "BTN"
    ELSE IF num_players = 2
    THEN (IF player_index = 0 THEN "SB" ELSE "BB")
    ELSE IF player_index = 0 THEN "SB"
    ELSE IF player_index = 1 THEN "BB"
    ELSE IF player_index = num_players - 1 THEN "BTN"
    ELSE IF player_index = num_players - 2 THEN "CO"
    ELSE "MP"

\* pk_state.street as the number of the street, None once the hand is over
PkStreetNumber(p) ==
    [is_int |-> TRUE, value |-> IF p.status THEN p.street_index ELSE NoIndex]

\* pk_state.street is the library's Street object of the current street,
\* not its number
PkStreet(p) == [is_int |-> FALSE, value |-> p.street_index]

\* PokerKitExecutor._get_street_name: street_names is keyed by 0..3
StreetNames == <<"preflop", "flop", "turn", "river">>
GetStreetName(p) ==
    LET key == PkStreet(p)
    IN IF key.is_int /\ key.value \in 0 .. 3
       THEN StreetNames[key.value + 1]
       ELSE "preflop"

\* the players list built by from_engine_state and by
\* _create_temp_l1_state_for_winner_check
PlayersOf(p) ==
    [i \in Seats(p.player_count) |->
        Player(PlayerId(i), p.stacks[i], p.hole_cards[i],
               GetPosition(i, p.player_count),
               IF p.statuses[i] THEN ACTIVE ELSE OUT,
               p.bets[i], p.bets[i])]

\* _create_temp_l1_state_for_winner_check marking the state terminal while
\* the hand is running
CreateTempL1StateRunning(p) ==
    [players |-> PlayersOf(p),
     community_cards |-> p.board_cards,
     pot |-> SumFn(p.bets),
     current_player_index |-> 0,
     dealer_index |-> 0,
     small_blind |-> p.blinds_or_straddles[0],
     big_blind |-> p.blinds_or_straddles[1],
     current_bet |-> MaxFn(p.bets),
     street |-> GetStreetName(p),
     is_terminal |-> p.status,
     winner_index |-> NoIndex]

\* PokerKitExecutor._create_temp_l1_state_for_winner_check
CreateTempL1State(p) ==
    [players |-> PlayersOf(p),
     community_cards |-> p.board_cards,
     pot |-> SumFn(p.bets),
     current_player_index |-> 0,
     dealer_index |-> 0,
     small_blind |-> p.blinds_or_straddles[0],
     big_blind |-> p.blinds_or_straddles[1],
     current_bet |-> MaxFn(p.bets),
     street |-> GetStreetName(p),
     is_terminal |-> ~p.status,
     winner_index |-> NoIndex]

\* _determine_winner_via_l1_rules with the running-hand test inverted
DetermineWinnerViaL1RulesInverted(p) ==
    IF ~p.status THEN NoIndex
    ELSE LET result == DetermineWinners(CreateTempL1State(p))
         IN IF result.winners # <<>> THEN result.winners[1] ELSE NoIndex

\* PokerKitExecutor._determine_winner_via_l1_rules
DetermineWinnerViaL1Rules(p) ==
    IF p.status THEN NoIndex
    ELSE LET result == DetermineWinners(CreateTempL1State(p))
         IN IF result.winners # <<>> THEN result.winners[1] ELSE NoIndex

\* from_engine_state taking seat 0's bet for the street's current_bet
FromEngineStateFirstBet(p) ==
    [players |-> PlayersOf(p),
     community_cards |-> p.board_cards,
     pot |-> SumFn(p.bets),
     current_player_index |->
         IF PkActorIndex(p) # NoIndex THEN PkActorIndex(p) ELSE 0,
     dealer_index |-> 0,
     small_blind |-> p.blinds_or_straddles[0],
     big_blind |-> p.blinds_or_straddles[1],
     current_bet |-> p.bets[0],
     street |-> GetStreetName(p),
     is_terminal |-> ~p.status,
     winner_index |-> DetermineWinnerViaL1Rules(p)]

\* PokerKitExecutor.from_engine_state
FromEngineState(p) ==
    [players |-> PlayersOf(p),
     community_cards |-> p.board_cards,
     pot |-> SumFn(p.bets),
     current_player_index |->
         IF PkActorIndex(p) # NoIndex THEN PkActorIndex(p) ELSE 0,
     dealer_index |-> 0,
     small_blind |-> p.blinds_or_straddles[0],
     big_blind |-> p.blinds_or_straddles[1],
     current_bet |-> MaxFn(p.bets),
     street |-> GetStreetName(p),
     is_terminal |-> ~p.status,
     winner_index |-> DetermineWinnerViaL1Rules(p)]

\* the library call step makes for an action, and whether it raises
EngineCallOk(p, game_state, action) ==
    CASE action.action_type = "fold"  -> PkFoldOk(p)
      [] action.action_type \in {"check", "call"} -> PkCheckOrCallOk(p)
      [] action.action_type = "raise" ->
             PkRaiseToOk(p, action.amount + CurrentPlayer(game_state).current_bet)
      [] action.action_type = "all_in" ->
             PkRaiseToOk(p, CurrentPlayer(game_state).current_bet
                                + CurrentPlayer(game_state).stack)

\* the library call with a raise to action.amount itself
EngineCallRaiseToAmount(p, game_state, action) ==
    CASE action.action_type = "fold"  -> PkFold(p)
      [] action.action_type \in {"check", "call"} -> PkCheckOrCall(p)
      [] action.action_type = "raise" -> PkRaiseTo(p, action.amount)
      [] action.action_type = "all_in" ->
             PkRaiseTo(p, CurrentPlayer(game_state).current_bet
                              + CurrentPlayer(game_state).stack)

EngineCall(p, game_state, action) ==
    CASE action.action_type = "fold"  -> PkFold(p)
      [] action.action_type \in {"check", "call"} -> PkCheckOrCall(p)
      [] action.action_type = "raise" ->
             PkRaiseTo(p, action.amount + CurrentPlayer(game_state).current_bet)
      [] action.action_type = "all_in" ->
             PkRaiseTo(p, CurrentPlayer(game_state).current_bet
                              + CurrentPlayer(game_state).stack)

\* PokerKitExecutor.get_legal_actions
GetLegalActions(game_state) ==
    LET current_player == CurrentPlayer(game_state)
        current_bet == game_state.current_bet
        player_bet == current_player.current_bet
    IN (IF current_player.stack > 0 THEN {"f"} ELSE {})
       \cup (IF current_bet = player_bet THEN {"ch"} ELSE {})
       \cup (IF current_bet > player_bet
                 /\ current_player.stack >= current_bet - player_bet
              THEN {"c"} ELSE {})
       \cup (IF current_player.stack > 0 THEN {"r <amount>", "a"} ELSE {})

\* the event text with the player and the action type changing places
EventSwapped(action) == <<action.action_type, "performed", action.player_id>>

\* the event step returns for an applied action
Event(action) == <<action.player_id, "performed", action.action_type>>

\* step that checks or calls for the actor when the library call fails
StepCheckOnFailure(p, game_state, action) ==
    IF ~EngineCallOk(p, game_state, action)
    THEN LET p1 == IF PkCheckOrCallOk(p) THEN PkCheckOrCall(p) ELSE p
         IN [pk |-> p1, game_state |-> FromEngineState(p1), events |-> <<>>,
             is_terminal |-> game_state.is_terminal, applied |-> FALSE]
    ELSE LET p1 == EngineCall(p, game_state, action)
             new_game_state == FromEngineState(p1)
         IN [pk |-> p1, game_state |-> new_game_state,
             events |-> <<Event(action)>>,
             is_terminal |-> new_game_state.is_terminal, applied |-> TRUE]

\* PokerKitExecutor.step: the StepResult, with the executor's pk state after
\* the call and whether the library call went through
Step(p, game_state, action) ==
    IF ~EngineCallOk(p, game_state, action)
    THEN [pk |-> p, game_state |-> game_state, events |-> <<>>,
          is_terminal |-> game_state.is_terminal, applied |-> FALSE]
    ELSE LET p1 == EngineCall(p, game_state, action)
             new_game_state == FromEngineState(p1)
         IN [pk |-> p1, game_state |-> new_game_state,
             events |-> <<Event(action)>>,
             is_terminal |-> new_game_state.is_terminal, applied |-> TRUE]

\* create_initial_state reporting the pot as it was before the blinds
CreateInitialStateEmptyPot(config) ==
    [FromEngineState(PkCreateState(config)) EXCEPT !.pot = 0]

\* PokerKitExecutor.create_initial_state
CreateInitialState(config) == FromEngineState(PkCreateState(config))

----------------------------------------------------------------------------
(* l3_driver/game_loop.py *)

\* _is_action_valid judging against the player's own bet, not the street's
IsActionValidOwnBet(action, game_state) ==
    IsValid(action, CurrentPlayer(game_state).current_bet,
            CurrentPlayer(game_state).stack,
            CurrentPlayer(game_state).current_bet)

\* GameLoop._is_action_valid
IsActionValid(action, game_state) ==
    IsValid(action, game_state.current_bet,
            CurrentPlayer(game_state).stack,
            CurrentPlayer(game_state).current_bet)

----------------------------------------------------------------------------
(* Initial states *)

GameConfig(num_players, small_blind, big_blind, starting_stack) ==
    [num_players |-> num_players, small_blind |-> small_blind,
     big_blind |-> big_blind, starting_stack |-> starting_stack]

\* the hands played: Scenario A's heads-up table and a short-stacked
\* three-handed table
Configs == {GameConfig(2, 10, 20, 1000), GameConfig(3, 1, 2, 6)}

\* the hands played by a caller that steps the engine itself
StepConfigs == {GameConfig(2, 10, 20, 1000)}

\* the record kept of a submitted action: the current player, that player's
\* stack and bet and the street's bet and minimum raise before it, the validator's verdict, whether
\* the engine applied it, and the events step returned
Attempt(game_state, p, action) ==
    [made |-> TRUE, action |-> action,
     actor |-> game_state.current_player_index,
     had_actor |-> PkActorIndex(p) # NoIndex,
     pre_status |-> CurrentPlayer(game_state).status,
     pre_stack |-> CurrentPlayer(game_state).stack,
     pre_bet |-> CurrentPlayer(game_state).current_bet,
     pre_current_bet |-> game_state.current_bet,
     min_raise |-> p.completion_amount,
     validated |-> FALSE, valid |-> FALSE, applied |-> FALSE, events |-> <<>>,
     logged |-> 0]
NoAttempt ==
    [made |-> FALSE, action |-> NoAction, actor |-> 0, had_actor |-> FALSE,
     pre_status |-> ACTIVE, pre_stack |-> 0, pre_bet |-> 0,
     pre_current_bet |-> 0, min_raise |-> 0,
     validated |-> FALSE, valid |-> FALSE, applied |-> FALSE, events |-> <<>>,
     logged |-> 0]
NoResult == [called |-> FALSE, winners |-> <<>>, payouts |-> EmptyPayouts]

\* what a caller of step keeps of the call it just made, if that call was
\* applied: the snapshot and the action it passed, the snapshot and events
\* it got back, and the same for a further call with that snapshot and that
\* action again
NoHeld(game_state) ==
    [taken |-> FALSE, game_state |-> game_state, action |-> NoAction,
     result |-> game_state, events |-> <<>>,
     replayed |-> FALSE, replay_result |-> game_state, replay_events |-> <<>>]

NoStreetResult == [asked |-> FALSE, street |-> "", next |-> None]

\* what is kept of a call of with_player_action: its arguments and the
\* GameState it returned
NoUpdate(game_state) ==
    [called |-> FALSE, player_index |-> 0, new_stack |-> 0, new_bet |-> 0,
     new_status |-> ACTIVE, result |-> game_state]

\* what is kept of the calls of compare_hands on three hands
NoHand == [rank |-> HIGH_CARD, kickers |-> <<>>]
NoCompared ==
    [called |-> FALSE, hand1 |-> NoHand, hand2 |-> NoHand, hand3 |-> NoHand,
     ab |-> 0, ba |-> 0, bc |-> 0, ac |-> 0]

\* what is kept of a run of an entry point: its arguments and whether
\* start_game was reached
NoCli ==
    [asked |-> FALSE, entry |-> None, players |-> 0, sb |-> 0, bb |-> 0,
     stack |-> 0, created |-> FALSE]

\* GameLoop.current_state before start_game
NoGameState ==
    [players |-> <<>>, community_cards |-> <<>>, pot |-> 0,
     current_player_index |-> 0, dealer_index |-> 0, small_blind |-> 0,
     big_blind |-> 0, current_bet |-> 0, street |-> None,
     is_terminal |-> FALSE, winner_index |-> NoIndex]

\* a hand started through GameLoop.start_game ("loop") or through
\* create_initial_state by a caller that steps the engine itself ("step")
InitGame ==
    /\ \E config \in Configs :
          /\ driver \in (IF config \in StepConfigs
                         THEN {"loop", "step"} ELSE {"loop"})
          /\ pk = PkCreateState(config)
          /\ current_state = CreateInitialState(config)
    /\ last = NoAttempt
    /\ raises = 0
    /\ rules_result = NoResult
    /\ held = NoHeld(current_state)
    /\ street_result = NoStreetResult
    /\ acted = {}
    /\ update = NoUpdate(current_state)
    /\ compared = NoCompared
    /\ cli = NoCli

\* GameState values built directly, as the L1 tests build them
ScenarioPots == {101, 200}
FixturePots == (0 .. MaxFixturePot) \cup ScenarioPots
FixtureBets == {<<100, 500, 1000>>, <<100, 100, 100>>}
FixtureBoards == {<<>>, SubSeq(Deck, 7, 9), SubSeq(Deck, 7, 11)}
FixtureStreet(board) ==
    IF Len(board) = 0 THEN "preflop" ELSE IF Len(board) = 3 THEN "flop" ELSE "river"

FixturePlayers(n) ==
    {[i \in Seats(n) |->
         Player(PlayerId(i),
                IF status[i] = ALL_IN THEN 0 ELSE 1000,
                IF has_cards[i] THEN SubSeq(Deck, 2 * i + 1, 2 * i + 2) ELSE NoCards,
                GetPosition(i, n), status[i], 0, bets[i + 1])] :
       status \in [Seats(n) -> PlayerStatus],
       has_cards \in {f \in [Seats(n) -> BOOLEAN] : n = 2 \/ \A i \in Seats(n) : f[i]},
       bets \in FixtureBets}

FixtureState(players, board, pot, is_terminal) ==
    [players |-> players,
     community_cards |-> board,
     pot |-> pot,
     current_player_index |-> 0,
     dealer_index |-> 0,
     small_blind |-> 10,
     big_blind |-> 20,
     current_bet |-> 0,
     street |-> FixtureStreet(board),
     is_terminal |-> is_terminal,
     winner_index |-> NoIndex]

\* the pot is one of the fixture pots or what the players have put in
FixtureStates ==
    UNION {{FixtureState(players, board, pot, is_terminal) :
               board \in FixtureBoards,
               pot \in FixturePots \cup
                       {SumFn([i \in DOMAIN players |->
                                  players[i].total_bet_this_hand])},
               is_terminal \in BOOLEAN} :
           players \in FixturePlayers(2) \cup FixturePlayers(3)}

InitRules ==
    /\ driver = "rules"
    /\ pk = [status |-> FALSE, completion_amount |-> 0]
    /\ current_state \in FixtureStates
    /\ last = NoAttempt
    /\ raises = 0
    /\ rules_result = NoResult
    /\ held = NoHeld(current_state)
    /\ street_result = NoStreetResult
    /\ acted = {}
    /\ update = NoUpdate(current_state)
    /\ compared = NoCompared
    /\ cli = NoCli

\* the snapshots GameLoop._is_action_valid is asked about: the current
\* player (seat 0) with any status, stack and bet, facing a street bet that
\* the other player has made
MaxValidatorChips == 3
ValidatorState(status, stack, bet, current_bet) ==
    [players |-> [i \in Seats(2) |->
                     IF i = 0
                     THEN Player(PlayerId(0), stack, SubSeq(Deck, 1, 2),
                                 GetPosition(0, 2), status, bet, bet)
                     ELSE Player(PlayerId(1), MaxValidatorChips,
                                 SubSeq(Deck, 3, 4), GetPosition(1, 2),
                                 ACTIVE, current_bet, current_bet)],
     community_cards |-> <<>>,
     pot |-> bet + current_bet,
     current_player_index |-> 0,
     dealer_index |-> 0,
     small_blind |-> 1,
     big_blind |-> 2,
     current_bet |-> current_bet,
     street |-> "preflop",
     is_terminal |-> FALSE,
     winner_index |-> NoIndex]

\* the street's bet is the highest bet, so never below the player's own
ValidatorStates ==
    UNION {{ValidatorState(status, stack, bet, current_bet) :
               status \in PlayerStatus,
               stack \in 0 .. MaxValidatorChips,
               current_bet \in bet .. MaxValidatorChips} :
           bet \in 0 .. MaxValidatorChips}

InitValidator ==
    /\ driver = "validator"
    /\ pk = [status |-> FALSE, completion_amount |-> 0]
    /\ current_state \in ValidatorStates
    /\ last = NoAttempt
    /\ raises = 0
    /\ rules_result = NoResult
    /\ held = NoHeld(current_state)
    /\ street_result = NoStreetResult
    /\ acted = {}
    /\ update = NoUpdate(current_state)
    /\ compared = NoCompared
    /\ cli = NoCli

\* calls of PokerRules.get_next_street alone
InitStreet ==
    /\ driver = "street"
    /\ pk = [status |-> FALSE, completion_amount |-> 0]
    /\ current_state = ValidatorState(ACTIVE, 0, 0, 0)
    /\ last = NoAttempt
    /\ raises = 0
    /\ rules_result = NoResult
    /\ held = NoHeld(current_state)
    /\ street_result = NoStreetResult
    /\ acted = {}
    /\ update = NoUpdate(current_state)
    /\ compared = NoCompared
    /\ cli = NoCli

\* the snapshots with_player_action is called on: seat 0 with any stack,
\* street bet and hand total, seat 1 having bet one chip
MaxUpdateChips == 2
UpdateState(stack, bet, total) ==
    [players |-> [i \in Seats(2) |->
                     IF i = 0
                     THEN Player(PlayerId(0), stack, SubSeq(Deck, 1, 2),
                                 GetPosition(0, 2), ACTIVE, bet, total)
                     ELSE Player(PlayerId(1), MaxUpdateChips,
                                 SubSeq(Deck, 3, 4), GetPosition(1, 2),
                                 ACTIVE, 1, 1)],
     community_cards |-> <<>>,
     pot |-> total + 1,
     current_player_index |-> 0,
     dealer_index |-> 0,
     small_blind |-> 1,
     big_blind |-> 2,
     current_bet |-> Max2(bet, 1),
     street |-> "preflop",
     is_terminal |-> FALSE,
     winner_index |-> NoIndex]

\* what a player has bet on the street is part of the hand's total
UpdateStates ==
    UNION {{UpdateState(stack, bet, total) :
               stack \in 0 .. MaxUpdateChips, total \in bet .. MaxUpdateChips} :
           bet \in 0 .. MaxUpdateChips}

\* calls of GameState.with_player_action alone
InitUpdate ==
    /\ driver = "update"
    /\ pk = [status |-> FALSE, completion_amount |-> 0]
    /\ current_state \in UpdateStates
    /\ last = NoAttempt
    /\ raises = 0
    /\ rules_result = NoResult
    /\ held = NoHeld(current_state)
    /\ street_result = NoStreetResult
    /\ acted = {}
    /\ update = NoUpdate(current_state)
    /\ compared = NoCompared
    /\ cli = NoCli

\* calls of PokerRules.compare_hands alone ("hands") and runs of the entry
\* points run_cli and main ("cli"); no game has been started
InitNoGame ==
    /\ driver \in {"hands", "cli"}
    /\ pk = [status |-> FALSE, completion_amount |-> 0]
    /\ current_state = NoGameState
    /\ last = NoAttempt
    /\ raises = 0
    /\ rules_result = NoResult
    /\ held = NoHeld(current_state)
    /\ street_result = NoStreetResult
    /\ acted = {}
    /\ update = NoUpdate(current_state)
    /\ compared = NoCompared
    /\ cli = NoCli

Init ==
    InitGame \/ InitRules \/ InitValidator \/ InitStreet \/ InitUpdate
        \/ InitNoGame

----------------------------------------------------------------------------
(* Actions *)

\* what a player may type at the prompt
RaiseInputs(game_state) ==
    {Input(verb, TRUE, TRUE, k * Min2(game_state.small_blind, game_state.big_blind)) :
        verb \in {"r"}, k \in 0 .. MaxRaiseUnits}
InputLines(game_state) ==
    {Word(v) : v \in {"f", "fold", "c", "ch", "a", "allin", "r", "bet"}}
        \cup RaiseInputs(game_state)
        \cup {Input("r", TRUE, FALSE, 0)}

IsRaising(action) == action.action_type \in {"raise", "all_in"}
Raised(action, applied) == IF applied /\ IsRaising(action) THEN 1 ELSE 0

\* the seats that have acted since the last raise of the street, after the
\* call of step that took the engine from p to step_result.pk
ActedAfter(p, step_result, action) ==
    IF ~step_result.applied THEN acted
    ELSE IF \/ ~step_result.pk.status
            \/ step_result.pk.showdown
            \/ step_result.pk.street_index # p.street_index
    THEN {}
    ELSE IF IsRaising(action) THEN {Head(p.actor_indices)}
    ELSE acted \cup {Head(p.actor_indices)}

\* one pass of the while loop of GameLoop.run_game_loop
LoopIteration(action_str) ==
    /\ driver = "loop"
    /\ ~current_state.is_terminal
    /\ LET action == ParseAction(action_str, CurrentPlayer(current_state).id)
           attempt == Attempt(current_state, pk, action)
       IN /\ IsRaising(action) => raises < MaxRaises
          /\ IF action = NoAction
             THEN /\ last' = attempt
                  /\ UNCHANGED <<pk, current_state, raises, acted>>
             ELSE IF ~IsActionValid(action, current_state)
             THEN /\ last' = [attempt EXCEPT !.validated = TRUE]
                  /\ UNCHANGED <<pk, current_state, raises, acted>>
             ELSE LET step_result == Step(pk, current_state, action)
                  IN /\ pk' = step_result.pk
                     /\ acted' = ActedAfter(pk, step_result, action)
                     /\ current_state' = step_result.game_state
                     /\ raises' = raises + Raised(action, step_result.applied)
                     /\ last' = [attempt EXCEPT
                                    !.validated = TRUE,
                                    !.valid = TRUE,
                                    !.applied = step_result.applied,
                                    !.events = step_result.events,
                                    !.logged = 1]
    /\ rules_result' = NoResult
    /\ UNCHANGED <<driver, held, street_result, update, compared, cli>>

\* the actions a caller of the engine may hand to step, in the name of the
\* snapshot's current player or of the player in the next seat
StepActions(game_state) ==
    UNION {{FoldAction(id), CheckAction(id), CallAction(id), AllInAction(id)}
              \cup {RaiseAction(id, k * Min2(game_state.small_blind,
                                             game_state.big_blind)) :
                       k \in 0 .. MaxRaiseUnits} :
           id \in {CurrentPlayer(game_state).id,
                   game_state.players[(game_state.current_player_index + 1)
                                          % NumPlayers(game_state)].id}}

\* a direct call engine.step(current_state, action); the caller keeps the
\* returned snapshot, and of an applied call in the current player's name
\* also the snapshot and the action it passed
EngineStep(action) ==
    /\ driver = "step"
    /\ ~held.replayed
    /\ IsRaising(action) => raises < MaxRaises
    /\ LET step_result == Step(pk, current_state, action)
       IN /\ pk' = step_result.pk
          /\ acted' = ActedAfter(pk, step_result, action)
          /\ current_state' = step_result.game_state
          /\ raises' = raises + Raised(action, step_result.applied)
          /\ last' = [Attempt(current_state, pk, action) EXCEPT
                         !.applied = step_result.applied,
                         !.events = step_result.events]
          /\ held' = IF step_result.applied
                          /\ action.player_id = CurrentPlayer(current_state).id
                     THEN [held EXCEPT !.taken = TRUE,
                                       !.game_state = current_state,
                                       !.action = action,
                                       !.result = step_result.game_state,
                                       !.events = step_result.events]
                     ELSE NoHeld(current_state)
    /\ rules_result' = NoResult
    /\ UNCHANGED <<driver, street_result, update, compared, cli>>

\* the caller's last call: engine.step(held.game_state, held.action), the
\* snapshot and the action of the call just applied once more
StepHeld ==
    /\ driver = "step"
    /\ held.taken /\ ~held.replayed
    /\ IsRaising(held.action) => raises < MaxRaises
    /\ LET step_result == Step(pk, held.game_state, held.action)
       IN /\ pk' = step_result.pk
          /\ acted' = ActedAfter(pk, step_result, held.action)
          /\ current_state' = step_result.game_state
          /\ raises' = raises + Raised(held.action, step_result.applied)
          /\ last' = [Attempt(held.game_state, pk, held.action) EXCEPT
                         !.applied = step_result.applied,
                         !.events = step_result.events]
          /\ held' = [held EXCEPT !.replayed = TRUE,
                                  !.replay_result = step_result.game_state,
                                  !.replay_events = step_result.events]
    /\ rules_result' = NoResult
    /\ UNCHANGED <<driver, street_result, update, compared, cli>>

\* PokerRules.determine_winners(current_state) on a state built by hand
CallDetermineWinners ==
    /\ driver = "rules"
    /\ ~rules_result.called
    /\ rules_result' = [called |-> TRUE] @@ DetermineWinners(current_state)
    /\ UNCHANGED <<driver, pk, current_state, last, raises, held,
                   street_result, acted, update, compared, cli>>

\* the actions the validator is asked about for the current player
ValidatorActions(game_state) ==
    LET id == CurrentPlayer(game_state).id
    IN {FoldAction(id), CheckAction(id), CallAction(id), AllInAction(id)}
           \cup {RaiseAction(id, k) : k \in 0 .. MaxRaiseUnits}

\* GameLoop._is_action_valid(action, current_state) alone
Validate(action) ==
    /\ driver = "validator"
    /\ ~last.made
    /\ last' = [NoAttempt EXCEPT
                   !.made = TRUE,
                   !.action = action,
                   !.actor = current_state.current_player_index,
                   !.pre_status = CurrentPlayer(current_state).status,
                   !.pre_stack = CurrentPlayer(current_state).stack,
                   !.pre_bet = CurrentPlayer(current_state).current_bet,
                   !.pre_current_bet = current_state.current_bet,
                   !.validated = TRUE,
                   !.valid = IsActionValid(action, current_state)]
    /\ UNCHANGED <<driver, pk, current_state, raises, rules_result, held,
                   street_result, acted, update, compared, cli>>

\* the strings get_next_street is given: the street names and others
StreetInputs ==
    {"preflop", "flop", "turn", "river", "showdown", "complete", "Flop",
     "invalid", ""}

\* PokerRules.get_next_street(current_street)
CallGetNextStreet(current_street) ==
    /\ driver = "street"
    /\ street_result' = [asked |-> TRUE, street |-> current_street,
                         next |-> GetNextStreet(current_street)]
    /\ UNCHANGED <<driver, pk, current_state, last, raises, rules_result,
                   held, acted, update, compared, cli>>

\* with_player_action that also overwrites the state it is called on
CallWithPlayerActionInPlace(player_index, new_stack, new_bet, new_status) ==
    /\ driver = "update"
    /\ ~update.called
    /\ update' = [called |-> TRUE, player_index |-> player_index,
                  new_stack |-> new_stack, new_bet |-> new_bet,
                  new_status |-> new_status,
                  result |-> WithPlayerAction(current_state, player_index,
                                              new_stack, new_bet, new_status)]
    /\ current_state' = WithPlayerAction(current_state, player_index,
                                         new_stack, new_bet, new_status)
    /\ UNCHANGED <<driver, pk, last, raises, rules_result,
                   held, street_result, acted, compared, cli>>

\* current_state.with_player_action(player_index, new_stack, new_bet,
\* new_status); the GameState is immutable and a new one is returned
CallWithPlayerAction(player_index, new_stack, new_bet, new_status) ==
    /\ driver = "update"
    /\ ~update.called
    /\ update' = [called |-> TRUE, player_index |-> player_index,
                  new_stack |-> new_stack, new_bet |-> new_bet,
                  new_status |-> new_status,
                  result |-> WithPlayerAction(current_state, player_index,
                                              new_stack, new_bet, new_status)]
    /\ UNCHANGED <<driver, pk, current_state, last, raises, rules_result,
                   held, street_result, acted, compared, cli>>

\* the (rank, kickers) tuples compare_hands is given
KickerLists == {<<"Ah", "Kd", "Qh", "Jh", "Th">>, <<"Ah", "As", "Kd", "Qh", "Jh">>}
Hands == {[rank |-> rank, kickers |-> kickers] :
             rank \in HandRank, kickers \in KickerLists}

\* PokerRules.compare_hands on the pairs of three hands
CallCompareHands(hand1, hand2, hand3) ==
    /\ driver = "hands"
    /\ ~compared.called
    /\ compared' = [called |-> TRUE,
                    hand1 |-> hand1, hand2 |-> hand2, hand3 |-> hand3,
                    ab |-> CompareHands(hand1, hand2),
                    ba |-> CompareHands(hand2, hand1),
                    bc |-> CompareHands(hand2, hand3),
                    ac |-> CompareHands(hand1, hand3)]
    /\ UNCHANGED <<driver, pk, current_state, last, raises, rules_result,
                   held, street_result, acted, update, cli>>

\* the validation of the arguments in run_cli and in main, which are the same
ConfigRejected(players, sb, bb, stack) ==
    \/ ~(2 <= players /\ players <= 9)
    \/ sb <= 0 \/ bb <= 0
    \/ bb <= sb
    \/ stack <= bb * 2

\* the arguments the entry points are given
MaxCliBlind == 2
CliPlayers == {1, 2, 9, 10}
CliBlinds == 0 .. MaxCliBlind + 1
CliStacks == 0 .. 2 * (MaxCliBlind + 1) + 1

\* an entry point up to GameLoop.start_game: the arguments are validated and,
\* if they pass, the GameConfig is built and the game started with it
Run(entry, players, sb, bb, stack) ==
    /\ driver = "cli"
    /\ ~cli.asked
    /\ cli' = [asked |-> TRUE, entry |-> entry, players |-> players,
               sb |-> sb, bb |-> bb, stack |-> stack,
               created |-> ~ConfigRejected(players, sb, bb, stack)]
    /\ IF ConfigRejected(players, sb, bb, stack)
       THEN UNCHANGED <<pk, current_state>>
       ELSE /\ pk' = PkCreateState(GameConfig(players, sb, bb, stack))
            /\ current_state' =
                   CreateInitialState(GameConfig(players, sb, bb, stack))
    /\ UNCHANGED <<driver, last, raises, rules_result, held, street_result,
                   acted, update, compared>>

\* cli_runner.run_cli(config_dict)
RunCli(players, sb, bb, stack) == Run("run_cli", players, sb, bb, stack)

\* main.main() with the parsed command line arguments
Main(players, sb, bb, stack) == Run("main", players, sb, bb, stack)

Next ==
    \/ /\ driver = "loop"
       /\ \E action_str \in InputLines(current_state) : LoopIteration(action_str)
    \/ /\ driver = "step"
       /\ \E action \in StepActions(current_state) : EngineStep(action)
    \/ StepHeld
    \/ CallDetermineWinners
    \/ /\ driver = "validator"
       /\ \E action \in ValidatorActions(current_state) : Validate(action)
    \/ \E current_street \in StreetInputs : CallGetNextStreet(current_street)
    \/ /\ driver = "update"
       /\ \E player_index \in Seats(2), new_stack \in 0 .. MaxUpdateChips,
             new_bet \in 0 .. MaxUpdateChips, new_status \in PlayerStatus :
              CallWithPlayerAction(player_index, new_stack, new_bet, new_status)
    \/ /\ driver = "hands"
       /\ \E hand1 \in Hands, hand2 \in Hands, hand3 \in Hands :
              CallCompareHands(hand1, hand2, hand3)
    \/ /\ driver = "cli"
       /\ \E players \in CliPlayers, sb \in CliBlinds, bb \in CliBlinds,
             stack \in CliStacks : RunCli(players, sb, bb, stack)
    \/ /\ driver = "cli"
       /\ \E players \in CliPlayers, sb \in CliBlinds, bb \in CliBlinds,
             stack \in CliStacks : Main(players, sb, bb, stack)

Spec == Init /\ [][Next]_vars

----------------------------------------------------------------------------
(* Properties *)

InGame == driver \in {"loop", "step"}
Fixture == driver = "rules"

PlayerSeats == DOMAIN current_state.players
StackSum == SumFn([i \in PlayerSeats |-> current_state.players[i].stack])
BetTotal == SumFn([i \in PlayerSeats |-> current_state.players[i].total_bet_this_hand])

\* players still in the hand: neither folded nor out
StillIn == {i \in PlayerSeats : current_state.players[i].status \in {ACTIVE, ALL_IN}}

PayoutSum == SumFn(rules_result.payouts)

\* C1: in every snapshot of a hand the players' stacks plus the pot add up
\* to the chips bought in (num_players x starting_stack)
C1_ChipConservation ==
    InGame => StackSum + current_state.pot = SumFn(pk.starting_stacks)

\* players in the hand who hold cards
Contenders ==
    {i \in PlayerSeats : /\ current_state.players[i].status = ACTIVE
                         /\ current_state.players[i].hole_cards # NoCards}

\* C2: for a terminal state with a player still in the hand, the payouts of
\* determine_winners add up to the pot
C2_PayoutsSumToPot ==
    (Fixture /\ rules_result.called /\ current_state.is_terminal
        /\ Contenders # {})
        => PayoutSum = current_state.pot

\* the place of seat i in seating order clockwise from the button
ClockwiseRank(i) ==
    (i - (current_state.dealer_index + 1)) % NumPlayers(current_state)

\* C3: k >= 2 tied winners each get pot div k, and the pot mod k odd chips
\* go one each to the first winners clockwise from the button
C3_OddChipsClockwise ==
    (Fixture /\ rules_result.called /\ Len(rules_result.winners) >= 2)
        => LET k == Len(rules_result.winners)
               winners == SeqToSet(rules_result.winners)
               before(w) == Cardinality({v \in winners :
                                ClockwiseRank(v) < ClockwiseRank(w)})
           IN \A w \in winners :
                 rules_result.payouts[w] =
                     (current_state.pot \div k)
                         + (IF before(w) < current_state.pot % k THEN 1 ELSE 0)

\* the most a player who put in c chips can win: min(c, bet of p) from each p
SidePotCap(c) ==
    SumFn([i \in PlayerSeats |->
              Min2(c, current_state.players[i].total_bet_this_hand)])

\* C4: when the pot is what the players put in and nobody has folded, a
\* winner who contributed c chips is paid at most the sum over all players p
\* of min(c, bet of p)
C4_SidePotCap ==
    (Fixture /\ rules_result.called /\ current_state.pot = BetTotal
        /\ \A i \in PlayerSeats : current_state.players[i].status = ACTIVE)
        => \A w \in DOMAIN rules_result.payouts :
              rules_result.payouts[w]
                  <= SidePotCap(current_state.players[w].total_bet_this_hand)

\* C5: in a terminal state with exactly one player who has not folded,
\* that player is the only winner and is paid the entire pot
C5_SingleSurvivor ==
    (Fixture /\ rules_result.called /\ current_state.is_terminal
        /\ Cardinality(StillIn) = 1)
        => \E w \in StillIn :
              /\ rules_result.winners = <<w>>
              /\ rules_result.payouts = [i \in {w} |-> current_state.pot]

\* Scenario A: the heads-up 10/20/1000 hand right after the small blind,
\* first to act, folded
SmallBlindSeat == CHOOSE i \in PlayerSeats : PkEffectiveBlindOrStraddle(pk, i) = 10
BigBlindSeat == CHOOSE i \in PlayerSeats : PkEffectiveBlindOrStraddle(pk, i) = 20
ScenarioA ==
    /\ InGame
    /\ pk.player_count = 2
    /\ pk.starting_stacks = [i \in Seats(2) |-> 1000]
    /\ last.made /\ last.applied
    /\ last.action.action_type = "fold"
    /\ last.pre_bet = 10 /\ last.pre_current_bet = 20

\* C6 as stated: after the fold the snapshot is terminal, names the big blind
\* as winner, shows a pot of 30 and stacks BB = 1020, SB = 990
C6_ScenarioA_Stated ==
    ScenarioA =>
        /\ current_state.is_terminal
        /\ current_state.winner_index = BigBlindSeat
        /\ current_state.pot = 30
        /\ current_state.players[BigBlindSeat].stack = 1020
        /\ current_state.players[SmallBlindSeat].stack = 990

\* C6 amended: after the fold the snapshot is terminal and names the big
\* blind as winner; the 30 chips of blinds have been paid out, so the pot
\* shown is 0 and the stacks are BB = 1010, SB = 990
C6_ScenarioA ==
    ScenarioA =>
        /\ current_state.is_terminal
        /\ current_state.winner_index = BigBlindSeat
        /\ current_state.pot = 0
        /\ current_state.players[BigBlindSeat].stack = 1010
        /\ current_state.players[SmallBlindSeat].stack = 990

C6_Witness == ScenarioA /\ current_state.is_terminal

\* Scenario B: P1 (Ah,Ad) against P2 (7c,2d) on Kh Qd Jh 3s 2h, pot 200
ScenarioB ==
    /\ Fixture /\ rules_result.called
    /\ current_state.is_terminal
    /\ NumPlayers(current_state) = 2
    /\ \A i \in PlayerSeats : current_state.players[i].status = ACTIVE
    /\ current_state.players[0].hole_cards = <<"Ah", "Ad">>
    /\ current_state.players[1].hole_cards = <<"7c", "2d">>
    /\ current_state.community_cards = <<"Kh", "Qd", "Jh", "3s", "2h">>
    /\ current_state.pot = 200

\* C7: in Scenario B P1 is the only winner, with a payout of 200
C7_ScenarioB ==
    ScenarioB =>
        /\ rules_result.winners = <<0>>
        /\ rules_result.payouts = [i \in {0} |-> 200]

\* C8: no winners before the hand is terminal: determine_winners returns no
\* winners and no payouts for a non-terminal state, and a non-terminal
\* snapshot of the engine has no winner_index
C8_NoWinnerBeforeTerminal ==
    ~current_state.is_terminal =>
        /\ current_state.winner_index = NoIndex
        /\ rules_result.called =>
              (rules_result.winners = <<>> /\ rules_result.payouts = EmptyPayouts)

C8_Witness ==
    /\ Fixture /\ rules_result.called
    /\ ~current_state.is_terminal
    /\ \E i \in PlayerSeats : current_state.players[i].status = ACTIVE

\* C9: a Raise(amount) passes validation only if amount > 0, amount <= the
\* actor's stack and the actor's bet + amount >= the street's bet + the
\* last raise size
C9_MinimumRaise ==
    (driver = "loop" /\ last.made /\ last.had_actor
        /\ last.action.action_type = "raise" /\ last.valid)
        => /\ last.action.amount > 0
           /\ last.action.amount <= last.pre_stack
           /\ last.pre_bet + last.action.amount
                  >= last.pre_current_bet + last.min_raise

\* C10: the current actor's AllIn is applied whenever the stack is > 0 and
\* then leaves stack 0 and a bet grown by the former stack; it is rejected
\* when the stack is 0
C10_AllInAlwaysLegal ==
    (driver = "loop" /\ last.made /\ last.had_actor
        /\ last.action.action_type = "all_in")
        => IF last.pre_stack > 0
           THEN /\ last.applied
                /\ current_state.players[last.actor].stack = 0
                /\ current_state.players[last.actor].current_bet
                       = last.pre_bet + last.pre_stack
           ELSE ~last.applied

----------------------------------------------------------------------------
(* Action legality *)

\* an action of this type went to the validator, for a player the engine
\* was waiting for when the hand is played through the game loop
Judged(action_type) ==
    /\ driver \in {"loop", "validator"}
    /\ last.made /\ last.validated
    /\ last.action.action_type = action_type
    /\ driver = "loop" => last.had_actor

\* the action was accepted: it passed the validator and, in the game loop,
\* the engine applied it
Accepted == last.valid /\ (driver = "loop" => last.applied)

\* what the player had to add to match the street's bet
CallAmount == last.pre_current_bet - last.pre_bet

\* C11: a Call is accepted if and only if the street's current_bet is above
\* the actor's own and the actor's stack covers the difference; an accepted
\* call takes exactly the difference from the stack, never less
C11_CallLegality ==
    Judged("call") =>
        /\ Accepted <=> (CallAmount > 0 /\ last.pre_stack >= CallAmount)
        /\ (driver = "loop" /\ last.applied) =>
               current_state.players[last.actor].stack
                   = last.pre_stack - CallAmount

C11_Witness ==
    /\ Judged("call") /\ driver = "validator"
    /\ CallAmount > 0 /\ last.pre_stack < CallAmount
    /\ ~Accepted

\* C12: a Check is accepted if and only if the street's current_bet equals
\* the actor's own current_bet
C12_CheckLegality ==
    Judged("check") => (Accepted <=> last.pre_current_bet = last.pre_bet)

C12_Witness ==
    /\ Judged("check") /\ driver = "loop"
    /\ last.pre_current_bet > last.pre_bet
    /\ ~Accepted

\* C13: a Fold is accepted for a player still in the hand and rejected for
\* a player whose status is FOLDED or OUT
C13_FoldLegality ==
    Judged("fold") => (Accepted <=> last.pre_status \notin {FOLDED, OUT})

----------------------------------------------------------------------------
(* Rejected actions, turns, events and purity *)

\* the snapshot the caller handed over with the action just submitted
Submitted == IF held'.replayed THEN held.game_state ELSE current_state

\* C14: a rejected action never changes state: after an action that failed
\* validation, was refused by the engine or came for a terminal hand, the
\* snapshot the caller holds is the one it submitted, and the engine's own
\* state is as it was
C14_RejectedNeverChangesState ==
    [][(InGame /\ last'.made /\ ~last'.applied)
           => (current_state' = Submitted /\ pk' = pk)]_vars

C14_Witness ==
    /\ driver = "loop"
    /\ last.made /\ last.valid /\ ~last.applied

\* C15: step rejects an action whose player_id is not the id of the player
\* at the snapshot's current_player_index
C15_OutOfTurnRejected ==
    (driver = "step" /\ last.made
        /\ last.action.player_id # PlayerId(last.actor))
        => ~last.applied

C17_StepIsPure ==
    held.replayed =>
        /\ held.replay_result = held.result
        /\ held.replay_events = held.events

----------------------------------------------------------------------------
(* Streets and the end of the hand by folding *)

\* C18: from one snapshot of a hand to the next the reported street stays
\* or moves to the next of preflop, flop, turn, river; it never skips a
\* street and never goes back, the terminal snapshot included
C18_StreetOnlyMovesForward ==
    [][InGame =>
          \/ current_state'.street = current_state.street
          \/ current_state'.street = GetNextStreet(current_state.street)]_vars

\* a hand whose flop has been dealt
C18_Witness ==
    /\ InGame
    /\ last.made /\ last.applied
    /\ Len(current_state.community_cards) >= 3

\* C19: get_next_street maps preflop to flop, flop to turn, turn to river,
\* and returns None for river and for every other string
C19_GetNextStreet ==
    street_result.asked =>
        street_result.next =
            CASE street_result.street = "preflop" -> "flop"
              [] street_result.street = "flop" -> "turn"
              [] street_result.street = "turn" -> "river"
              [] OTHER -> None

C19_Witness ==
    /\ street_result.asked
    /\ street_result.street = "river"
    /\ street_result.next = None

\* players of a snapshot who have not folded
NonFolded(state) ==
    {i \in DOMAIN state.players : state.players[i].status \in {ACTIVE, ALL_IN}}

\* C20: the snapshot an applied Fold returns with exactly one non-folded
\* player is terminal, has the community cards of the snapshot before and
\* satisfies is_game_complete; and no action is applied to a terminal hand,
\* whose community cards stay as they are
C20_FoldEndsHand ==
    [][InGame =>
          /\ (last'.made /\ last'.applied /\ last'.action.action_type = "fold"
                 /\ Cardinality(NonFolded(current_state')) = 1)
                => /\ current_state'.is_terminal
                   /\ current_state'.community_cards = Submitted.community_cards
                   /\ IsGameComplete(current_state')
          /\ current_state.is_terminal
                => /\ ~last'.applied
                   /\ current_state'.community_cards
                          = current_state.community_cards]_vars

C20_Witness ==
    /\ driver = "step"
    /\ current_state.is_terminal
    /\ Cardinality(NonFolded(current_state)) = 1
    /\ last.made /\ last.action.action_type = "call" /\ ~last.applied

----------------------------------------------------------------------------
(* Betting rounds and the current actor *)

\* the step closes the betting street and the hand goes on: the next street
\* is dealt or the showdown begins
Closes ==
    /\ InGame
    /\ pk.status /\ ~pk.showdown
    /\ pk'.status
    /\ (pk'.street_index # pk.street_index \/ pk'.showdown)

\* what the player of seat i had left once the closing action was taken
StackAtClose(i) ==
    IF i = Head(pk.actor_indices)
    THEN current_state.players[i].stack
             - Min2(current_state.players[i].stack,
                    current_state.current_bet
                        - current_state.players[i].current_bet)
    ELSE current_state.players[i].stack

\* C21: when a betting street closes, every player who has not folded and
\* is not all-in has a bet equal to the street's current_bet and has acted
\* since the last raise (the player whose action closes the street acts
\* with it); so preflop does not close before the big blind had a turn
C21_StreetClosesWhenAllActed ==
    [][Closes =>
          \A i \in PlayerSeats :
              (current_state'.players[i].status = ACTIVE /\ StackAtClose(i) > 0)
                  => /\ i \in acted \cup {Head(pk.actor_indices)}
                     /\ IF i = Head(pk.actor_indices)
                        THEN current_state'.players[i].stack
                                 = current_state.players[i].stack
                                       - (current_state.current_bet
                                            - current_state.players[i].current_bet)
                        ELSE current_state.players[i].current_bet
                                 = current_state.current_bet]_vars

\* the big blind checked its option and the flop was dealt
C21_Witness ==
    /\ InGame
    /\ last.made /\ last.applied /\ last.action.action_type = "check"
    /\ last.pre_bet = pk.min_bet /\ last.pre_current_bet = pk.min_bet
    /\ Len(current_state.community_cards) = 3
    /\ BoardCount[pk.street_index + 1] = 3

\* C22: in every snapshot of a hand that is not terminal the player at
\* current_player_index has status ACTIVE (so has not folded) and has chips
\* left
C22_CurrentPlayerCanAct ==
    (InGame /\ ~current_state.is_terminal)
        => /\ CurrentPlayer(current_state).status = ACTIVE
           /\ CurrentPlayer(current_state).stack > 0

----------------------------------------------------------------------------
(* Showdown among all-in players *)

\* C23: a terminal state with two or more players who have not folded,
\* ALL_IN players included, is settled as the showdown among all of them
C23_ShowdownAmongNonFolded ==
    (Fixture /\ rules_result.called /\ current_state.is_terminal
        /\ Cardinality(StillIn) >= 2)
        => LET showdown == EvaluateShowdown(current_state, SortedSeq(StillIn))
           IN /\ rules_result.winners = showdown.winners
              /\ rules_result.payouts = showdown.payouts

----------------------------------------------------------------------------
(* Configuration *)

\* C24: run_cli and main start a game if and only if there are 2 to 9
\* players, the small blind is positive, the big blind is above the small
\* blind and the starting stack is at least twice the big blind
C24_ConfigAccepted ==
    cli.asked
        => (cli.created
              <=> /\ 2 <= cli.players /\ cli.players <= 9
                  /\ cli.sb > 0
                  /\ cli.bb > cli.sb
                  /\ cli.stack >= 2 * cli.bb)

\* the snapshot create_initial_state returned, before any action
Initial == InGame /\ ~last.made

\* what the claim says of the initial snapshot of a configuration
InitialSnapshotOf(config) ==
    /\ pk.player_count = config.num_players
    /\ NumPlayers(current_state) = config.num_players
    /\ current_state.small_blind = config.small_blind
    /\ current_state.big_blind = config.big_blind
    /\ current_state.street = "preflop"
    /\ ~current_state.is_terminal
    /\ current_state.winner_index = NoIndex
    /\ current_state.pot = config.small_blind + config.big_blind
    /\ current_state.current_bet = config.big_blind
    /\ \A i \in PlayerSeats : Len(current_state.players[i].hole_cards) = 2
    /\ ~IsGameComplete(current_state)

\* C25: the initial snapshot of a configuration, of the hands played and of
\* every configuration an entry point accepts, has num_players players,
\* the configured small and big blind, street preflop, is not terminal and
\* has no winner; the pot is small_blind + big_blind, current_bet is the big
\* blind, every player holds 2 hole cards and is_game_complete is false
C25_InitialSnapshot ==
    /\ Initial => \E config \in Configs : InitialSnapshotOf(config)
    /\ cli.created
          => InitialSnapshotOf(GameConfig(cli.players, cli.sb, cli.bb, cli.stack))

\* the initial snapshot of the heads-up 10/20/1000 game
C25_Witness ==
    /\ Initial
    /\ NumPlayers(current_state) = 2
    /\ current_state.pot = 30
    /\ current_state.players[0].stack + current_state.players[1].stack = 1970

----------------------------------------------------------------------------
(* Player invariants *)

\* C26: no player's stack is negative in any snapshot of a hand
C26_StacksNonNegative ==
    InGame => \A i \in PlayerSeats : current_state.players[i].stack >= 0

\* a call that took the caller's last chip
C26_Witness ==
    /\ InGame
    /\ last.made /\ last.applied /\ last.action.action_type = "call"
    /\ last.pre_stack > 0
    /\ current_state.players[last.actor].stack = 0

\* C27: in every snapshot of a hand each player's current_bet is at most
\* the player's total_bet_this_hand, and when that holds for a player of a
\* GameState it holds for that player in what with_player_action returns,
\* whatever new_bet is
C27_BetWithinTotal ==
    /\ InGame => \A i \in PlayerSeats :
                     current_state.players[i].current_bet
                         <= current_state.players[i].total_bet_this_hand
    /\ (update.called
           /\ current_state.players[update.player_index].current_bet
                  <= current_state.players[update.player_index].total_bet_this_hand)
          => update.result.players[update.player_index].current_bet
                 <= update.result.players[update.player_index].total_bet_this_hand

\* with_player_action was given a new_bet above what the player had put in
\* during the hand
C27_Witness ==
    /\ update.called
    /\ update.new_bet
           > current_state.players[update.player_index].total_bet_this_hand
    /\ current_state.players[update.player_index].current_bet
           < current_state.players[update.player_index].total_bet_this_hand

----------------------------------------------------------------------------
(* Hand comparison *)

\* C28: compare_hands returns 0 exactly when the two hands have the same
\* rank and the same kickers
C28_EqualOnlyWhenSameKey ==
    compared.called
        => (compared.ab = 0
              <=> /\ compared.hand1.rank = compared.hand2.rank
                  /\ compared.hand1.kickers = compared.hand2.kickers)

\* C29: compare_hands(a, b) = -compare_hands(b, a), and when a does not
\* lose to b and b does not lose to c, a does not lose to c
C29_ConsistentOrdering ==
    compared.called
        => /\ compared.ab = -compared.ba
           /\ (compared.ab >= 0 /\ compared.bc >= 0) => compared.ac >= 0

\* three hands of falling rank with different kickers
C29_Witness ==
    /\ compared.called
    /\ compared.hand1.rank > compared.hand2.rank
    /\ compared.hand2.rank > compared.hand3.rank
    /\ compared.hand1.kickers # compared.hand2.kickers
    /\ compared.ab = 1 /\ compared.bc = 1 /\ compared.ac = 1

\* the categories from the lowest to the highest
CategoryOrder ==
    <<HIGH_CARD, PAIR, TWO_PAIR, THREE_OF_A_KIND, STRAIGHT, FLUSH, FULL_HOUSE,
      FOUR_OF_A_KIND, STRAIGHT_FLUSH, ROYAL_FLUSH>>

\* C30: when the first hand's category comes later in the order High Card,
\* Pair, Two Pair, Three of a Kind, Straight, Flush, Full House, Four of a
\* Kind, Straight Flush, Royal Flush than the second's, compare_hands
\* returns 1 and, with the hands in the other order, -1
C30_HigherCategoryWins ==
    compared.called
        => \A i, j \in DOMAIN CategoryOrder :
              (/\ i > j
               /\ compared.hand1.rank = CategoryOrder[i]
               /\ compared.hand2.rank = CategoryOrder[j])
                  => compared.ab = 1 /\ compared.ba = -1

\* a flush against a straight with other kickers
C30_Witness ==
    /\ compared.called
    /\ compared.hand1.rank = FLUSH /\ compared.hand2.rank = STRAIGHT
    /\ compared.hand1.kickers # compared.hand2.kickers
    /\ compared.ab = 1 /\ compared.ba = -1

----------------------------------------------------------------------------
(* Winners before the river and among the players in the hand *)

\* C31: for a terminal state with two or more ACTIVE players and fewer than
\* 5 community cards determine_winners returns exactly one winner, who is
\* paid the entire pot
C31_PreRiverSingleWinner ==
    (Fixture /\ rules_result.called /\ current_state.is_terminal
        /\ Len(ActivePlayers(current_state)) >= 2
        /\ Len(current_state.community_cards) < 5)
        => /\ Len(rules_result.winners) = 1
           /\ rules_result.payouts
                  = [i \in {rules_result.winners[1]} |-> current_state.pot]

\* two ACTIVE players with hole cards on the flop and a pot of 200
C31_Witness ==
    /\ Fixture /\ rules_result.called /\ current_state.is_terminal
    /\ Len(ActivePlayers(current_state)) >= 2
    /\ \A i \in PlayerSeats : current_state.players[i].hole_cards # NoCards
    /\ Len(current_state.community_cards) = 3
    /\ current_state.pot = 200
    /\ Len(rules_result.winners) = 1

\* C39: every winner determine_winners returns is an ACTIVE player, the
\* payouts are keyed by exactly the winners and none is negative; so no
\* folded and no out player is a winner or is paid
C39_OnlyActivePlayersPaid ==
    (Fixture /\ rules_result.called)
        => /\ \A k \in DOMAIN rules_result.winners :
                  current_state.players[rules_result.winners[k]].status = ACTIVE
           /\ DOMAIN rules_result.payouts = SeqToSet(rules_result.winners)
           /\ \A w \in DOMAIN rules_result.payouts :
                  rules_result.payouts[w] >= 0

\* winners were returned for a state with a folded and an out player
C39_Witness ==
    /\ Fixture /\ rules_result.called
    /\ rules_result.winners # <<>>
    /\ \E i \in PlayerSeats : current_state.players[i].status = FOLDED
    /\ \E i \in PlayerSeats : current_state.players[i].status = OUT

----------------------------------------------------------------------------
(* Bets in the snapshots *)

\* C32: a player's total_bet_this_hand never decreases from one snapshot of
\* a hand to the next, so it keeps the chips of the earlier streets when a
\* street closes
C32_TotalBetAccumulates ==
    [][InGame =>
          \A i \in PlayerSeats :
              current_state'.players[i].total_bet_this_hand
                  >= current_state.players[i].total_bet_this_hand]_vars

\* a raise was applied by this step
RaiseApplied ==
    /\ InGame
    /\ pk' # pk
    /\ last'.made /\ last'.applied
    /\ last'.action.action_type = "raise"

\* C33: an applied Raise(amount) takes exactly amount from the actor's
\* stack and adds exactly amount to the actor's current_bet, the street's
\* current_bet becomes that new bet, and no other player's stack or bet
\* changes
C33_RaiseDeltas ==
    [][RaiseApplied =>
          LET a == Head(pk.actor_indices)
              amount == last'.action.amount
          IN /\ current_state'.players[a].stack
                    = current_state.players[a].stack - amount
             /\ current_state'.players[a].current_bet
                    = current_state.players[a].current_bet + amount
             /\ current_state'.current_bet
                    = current_state.players[a].current_bet + amount
             /\ \A i \in PlayerSeats \ {a} :
                    /\ current_state'.players[i].stack
                           = current_state.players[i].stack
                    /\ current_state'.players[i].current_bet
                           = current_state.players[i].current_bet]_vars

\* the small blind, with 10 in, raised by 30 to 40
C33_Witness ==
    /\ InGame
    /\ last.made /\ last.applied /\ last.action.action_type = "raise"
    /\ last.action.amount = 30 /\ last.pre_bet = 10
    /\ current_state.current_bet = 40
    /\ current_state.players[last.actor].stack = last.pre_stack - 30

MaxPlayerBet(state) ==
    MaxFn([i \in DOMAIN state.players |-> state.players[i].current_bet])

----------------------------------------------------------------------------
(* The winner of a finished hand *)

\* C38: the snapshot in which a hand becomes terminal has a winner_index,
\* which names a player who has not folded and whose stack is higher than
\* it was in the snapshot before
C38_WinnerReceivedChips ==
    [][(InGame /\ ~current_state.is_terminal /\ current_state'.is_terminal)
          => LET w == current_state'.winner_index
             IN /\ w # NoIndex
                /\ w \in PlayerSeats
                /\ current_state'.players[w].status \in {ACTIVE, ALL_IN}
                /\ current_state'.players[w].stack
                       > current_state.players[w].stack]_vars

\* a three-handed hand ended by two folds
C38_Witness ==
    /\ InGame
    /\ current_state.is_terminal
    /\ NumPlayers(current_state) = 3
    /\ current_state.winner_index # NoIndex
    /\ Cardinality(NonFolded(current_state)) = 1

----------------------------------------------------------------------------
(* Legal actions, the log of the hand and progress *)

\* the action of the current player that an entry of the legal-action list
\* stands for
ListedAs == [fold |-> "f", check |-> "ch", call |-> "c", all_in |-> "a"]
ActionOfType(action_type, player_id) ==
    [action_type |-> action_type, player_id |-> player_id, amount |-> 0]

\* C35: for the current player of a snapshot of a running hand, fold, check,
\* call and all-in are in the list of get_legal_actions exactly when the
\* action passes validation, and each of them that is listed is applied by
\* step
C35_LegalActionsAgree ==
    (driver = "loop" /\ ~current_state.is_terminal)
        => \A action_type \in DOMAIN ListedAs :
              LET action == ActionOfType(action_type,
                                         CurrentPlayer(current_state).id)
                  listed == ListedAs[action_type] \in GetLegalActions(current_state)
              IN /\ listed <=> IsActionValid(action, current_state)
                 /\ listed => Step(pk, current_state, action).applied

\* C36: an iteration of the game loop adds an entry to hand_history exactly
\* when its action was applied to the state, and never more than one
C36_HistoryCountsAppliedActions ==
    (driver = "loop" /\ last.made)
        => /\ last.logged \in {0, 1}
           /\ last.logged = 1 <=> last.applied

\* C37: in every snapshot of a running hand in the game loop the current
\* player can type an action that passes validation and is applied
C37_SomeActionApplies ==
    (driver = "loop" /\ ~current_state.is_terminal)
        => \E action_str \in InputLines(current_state) :
              LET action == ParseAction(action_str,
                                        CurrentPlayer(current_state).id)
              IN /\ action # NoAction
                 /\ IsActionValid(action, current_state)
                 /\ Step(pk, current_state, action).applied

----------------------------------------------------------------------------
(* What with_player_action leaves alone *)

\* C40: a call of with_player_action leaves the state it is called on as it
\* is, and the state it returns differs from it only in the stack, status,
\* current_bet and total_bet_this_hand of the player updated and in pot and
\* current_bet; the pot and the player's total_bet_this_hand change by
\* new_bet minus the player's old current_bet
C40_WithPlayerActionFrame ==
    [][(driver = "update" /\ ~update.called /\ update'.called)
          => LET i == update'.player_index
                 old == current_state
                 new == update'.result
                 delta == update'.new_bet - old.players[i].current_bet
             IN /\ current_state' = current_state
                /\ DOMAIN new.players = DOMAIN old.players
                /\ \A j \in DOMAIN old.players \ {i} :
                       new.players[j] = old.players[j]
                /\ new.players[i].id = old.players[i].id
                /\ new.players[i].hole_cards = old.players[i].hole_cards
                /\ new.players[i].position = old.players[i].position
                /\ new.players[i].stack = update'.new_stack
                /\ new.players[i].status = update'.new_status
                /\ new.players[i].current_bet = update'.new_bet
                /\ new.players[i].total_bet_this_hand
                       = old.players[i].total_bet_this_hand + delta
                /\ new.pot = old.pot + delta
                /\ new.community_cards = old.community_cards
                /\ new.street = old.street
                /\ new.dealer_index = old.dealer_index
                /\ new.current_player_index = old.current_player_index
                /\ new.small_blind = old.small_blind
                /\ new.big_blind = old.big_blind
                /\ new.is_terminal = old.is_terminal
                /\ new.winner_index = old.winner_index]_vars

\* seat 1 was updated to FOLDED with another bet and another stack
C40_Witness ==
    /\ update.called
    /\ update.player_index = 1
    /\ update.new_status = FOLDED
    /\ update.new_bet # current_state.players[1].current_bet
    /\ update.new_stack # current_state.players[1].stack
    /\ update.result # current_state
    /\ update.result.players[0] = current_state.players[0]

====
